---- MODULE Spec2Model ----
(***************************************************************************)
(* Model of fizz-buzz-rest: the statistics store (internal/statistics),    *)
(* guarded by a sync.RWMutex, the Statistics middleware that feeds it, the *)
(* /fizzbuzz and /statistics handlers with the request validator, and the  *)
(* generator fizzbuzz.Generate.                                            *)
(*                                                                         *)
(* Every goroutine is a thread with a program counter.  Record is split    *)
(* into Lock / load / store / Unlock, GetMostFrequent into RLock / one     *)
(* step per iteration of the range loop / RUnlock, so that interleavings   *)
(* of concurrent callers are explored.  A Go string is a sequence of       *)
(* one-character strings, so that parsing is computed, not assumed.        *)
(***************************************************************************)
EXTENDS Integers, FiniteSets, Sequences, TLC

\* ---------------------------------------------------------------- bounds
NThreads == 3          \* goroutines calling into the store
MaxRecords == 3        \* cap on the Record invocations of a concurrent run
MaxLinRecords == 2     \* the same cap, in the runs that time every query
MaxSeqRecords == 5     \* cap on the Record invocations of a single caller
MaxMWRecords == 2      \* cap on the Record invocations made by the middleware
MaxWriteHeaders == 2   \* cap on the WriteHeader calls of one handler run
MaxRouteRecords == 2   \* cap on the Record invocations of the /fizzbuzz route
NStatThreads == 2      \* goroutines that serve /statistics or call Record
MaxStatRecords == 2    \* cap on the Record invocations next to /statistics
MaxDivisor == 5        \* the divisors of the direct calls of Generate: -5..5
MaxLimit == 15         \* the limits of the direct calls of Generate: -1..15
MaxHandlerRecords == 2 \* cap on the Record invocations, handlers that may panic
MaxRouterRecords == 2  \* cap on the Record invocations of the three routes
MaxLogRequests == 2    \* cap on the requests sent through the RequestLogger
MaxLogWrites == 2      \* cap on the Write calls of one handler run

Threads == 1..NThreads
NoThread == 0

\* the goroutines of the runs with /statistics requests
StatThreads == 1..NStatThreads

\* the one goroutine of the sequential runs
SeqThreads == {1}

\* ------------------------------------------------------- RequestParams
createParams(int1, int2, limit, str1, str2) ==
    [Int1 |-> int1, Int2 |-> int2, Limit |-> limit, Str1 |-> str1, Str2 |-> str2]

\* the zero value of RequestParams (var maxParams RequestParams)
ZeroParams == createParams(0, 0, 0, <<>>, <<>>)

\* the params values of the concurrent callers
ConcParams ==
    { createParams(1, 2, 10, <<"a">>, <<"b">>),
      createParams(3, 4, 10, <<"c">>, <<"d">>) }

\* the params values of a single caller (TestStore_MultipleRequests_FindMax)
ParamsUniverse ==
    ConcParams \cup { createParams(5, 6, 10, <<"p">>, <<"q">>) }

VARIABLES
    requests,   \* Store.requests : map[RequestParams]int
    mu,         \* Store.mu : sync.RWMutex
    pc,         \* per thread: where it is in its call
    arg,        \* per thread: the params argument of Record
    tmp,        \* per thread: the value loaded by s.requests[params]++
    scan,       \* per thread: locals of GetMostFrequent
    snap,       \* per thread: the map as it was when the read lock was taken
    mw,         \* per thread: the HTTP request the goroutine serves
    invoked,    \* history: number of Record(p) calls invoked, per p
    returned,   \* history: number of Record(p) calls returned, per p
    qlo,        \* per thread: `returned' at the invocation of GetMostFrequent
                \* (history, kept in the runs that time every query)
    gen,        \* the arguments and the result of a direct call of
                \* fizzbuzz.Generate
    prs,        \* the argument and the result of a direct call of
                \* parseFizzBuzzParams
    lg          \* the request inside the RequestLogger middleware, and the log

vars == <<requests, mu, pc, arg, tmp, scan, snap, mw, invoked, returned, qlo, gen, prs, lg>>

\* ------------------------------------------------------------ map helpers
EmptyMap == [k \in {} |-> 0]

\* m[k] with Go's zero value for a missing key
MapGet(m, k) == IF k \in DOMAIN m THEN m[k] ELSE 0

\* m[k] = v
MapSet(m, k, v) == [x \in DOMAIN m \cup {k} |-> IF x = k THEN v ELSE m[x]]

RECURSIVE SumOver(_, _)
SumOver(f, S) ==
    IF S = {} THEN 0
    ELSE LET x == CHOOSE y \in S : TRUE IN f[x] + SumOver(f, S \ {x})

TotalInvoked == SumOver(invoked, DOMAIN invoked)

\* ---------------------------------------------------------------- NewStore
NewStore == EmptyMap

NewRWMutex == [w |-> NoThread, writerPending |-> FALSE, readerCount |-> 0, readerWait |-> 0]

\* locals of GetMostFrequent before the loop; the range statement is
\* evaluated over the keys present when the loop starts
ScanInit(m) ==
    [remaining |-> DOMAIN m, maxParams |-> ZeroParams, maxHits |-> 0, found |-> FALSE]

NoScan == ScanInit(EmptyMap)

\* -------------------------------------------------- requests and responses
StatusOK == 200
StatusBadRequest == 400
StatusNotFound == 404
StatusInternalServerError == 500

\* the status codes a wrapped handler sets (stats_test.go)
StatusCodes == {StatusOK, StatusBadRequest, StatusInternalServerError}

QueryKeys == {"int1", "int2", "limit", "str1", "str2"}

\* the raw values a query may carry for a key; {} stands for an absent key
RawChoices(k) ==
    CASE k = "int1"  -> {{}, {<<>>}, {<<"3">>}, {<<"0">>}, {<<"x">>}}
      [] k = "int2"  -> {{<<"5">>}, {<<"-", "5">>}}
      [] k = "limit" -> {{<<"1", "5">>}, {<<"1", "x">>}}
      [] k = "str1"  -> {{}, {<<>>}, {<<"a">>}}
      [] k = "str2"  -> {{<<"b">>}, {<<>>}}

\* url.Values of a request: the keys present, each with its first value
Queries ==
    { [k \in {x \in QueryKeys : c[x] # {}} |-> CHOOSE v \in c[k] : TRUE] :
        c \in {f \in [QueryKeys -> UNION {RawChoices(k) : k \in QueryKeys}] :
                 \A k \in QueryKeys : f[k] \in RawChoices(k)} }

\* the raw values of the requests sent to the /fizzbuzz route
RouteChoices(k) ==
    CASE k = "int1"  -> {{}, {<<"0">>}, {<<"3">>}, {<<"+", "3">>}}
      [] k = "int2"  -> {{<<"5", ".", "0">>}, {<<"5">>}}
      [] k = "limit" -> {{<<"-", "1">>}, {<<"1", "5">>}}
      [] k = "str1"  -> {{<<>>}, {<<"a">>}, {<<"f", "i", "z", "z">>}}
      [] k = "str2"  -> {{}, {<<"b">>}}

RouteQueries ==
    { [k \in {x \in QueryKeys : c[x] # {}} |-> CHOOSE v \in c[k] : TRUE] :
        c \in [int1 : RouteChoices("int1"), int2 : RouteChoices("int2"),
               limit : RouteChoices("limit"), str1 : RouteChoices("str1"),
               str2 : RouteChoices("str2")] }

\* the queries of TestStatistics_HandlerStillExecutes: the five parameters,
\* and the same without str2
HandlerQueries ==
    { [int1 |-> <<"3">>, int2 |-> <<"5">>, limit |-> <<"1", "5">>,
       str1 |-> <<"f", "i", "z", "z">>, str2 |-> <<"b", "u", "z", "z">>],
      [int1 |-> <<"3">>, int2 |-> <<"5">>, limit |-> <<"1", "5">>,
       str1 |-> <<"f", "i", "z", "z">>] }

\* the raw values the validator is called with (TestHandler_FizzBuzz): absent,
\* empty, not a number, zero, negative, positive, signed, many digits
NumberChoices ==
    {{}, {<<>>}, {<<"x">>}, {<<"1", "x">>}, {<<"5", ".", "0">>}, {<<"-">>},
     {<<"0">>}, {<<"-", "5">>}, {<<"3">>}, {<<"+", "3">>}, {<<"1", "5">>},
     {<<"1", "0", "0", "0", "0", "0", "0">>}}

LabelChoices == {{}, {<<>>}, {<<"a">>}, {<<"1">>}}

ParseQueries ==
    { [k \in {x \in QueryKeys : c[x] # {}} |-> CHOOSE v \in c[k] : TRUE] :
        c \in [int1 : NumberChoices, int2 : NumberChoices, limit : NumberChoices,
               str1 : LabelChoices, str2 : LabelChoices] }

\* url.Values.Get: the value of the key, "" when the key is absent
Get(values, key) == IF key \in DOMAIN values THEN values[key] ELSE <<>>

Digits == {"0", "1", "2", "3", "4", "5", "6", "7", "8", "9"}

DigitValue(c) ==
    CASE c = "0" -> 0 [] c = "1" -> 1 [] c = "2" -> 2 [] c = "3" -> 3
      [] c = "4" -> 4 [] c = "5" -> 5 [] c = "6" -> 6 [] c = "7" -> 7
      [] c = "8" -> 8 [] c = "9" -> 9

RECURSIVE Decimal(_)
Decimal(s) ==
    IF s = <<>> THEN 0
    ELSE 10 * Decimal(SubSeq(s, 1, Len(s) - 1)) + DigitValue(s[Len(s)])

\* a parser that takes the empty string for 0
AtoiLenient(s) ==
    LET signed == s # <<>> /\ Head(s) \in {"+", "-"}
        body == IF signed THEN Tail(s) ELSE s
    IN  IF \E i \in 1..Len(body) : body[i] \notin Digits
          THEN [val |-> 0, err |-> TRUE]
          ELSE [val |-> IF signed /\ Head(s) = "-" THEN 0 - Decimal(body)
                        ELSE Decimal(body),
                err |-> FALSE]

\* strconv.Atoi: an optional sign followed by one or more decimal digits (the
\* strings of the model are too short to leave the range of int)
Atoi(s) ==
    LET signed == s # <<>> /\ Head(s) \in {"+", "-"}
        body == IF signed THEN Tail(s) ELSE s
    IN  IF body = <<>> \/ \E i \in 1..Len(body) : body[i] \notin Digits
          THEN [val |-> 0, err |-> TRUE]
          ELSE [val |-> IF signed /\ Head(s) = "-" THEN 0 - Decimal(body)
                        ELSE Decimal(body),
                err |-> FALSE]

\* a *Stats or an error is the empty set (nil) or a one-element set (the value)
Nil == {}

\* ------------------------------------------------------ fizzbuzz.Generate
Abs(x) == IF x < 0 THEN 0 - x ELSE x

\* Go's n % d for d # 0: the remainder of the division truncated towards zero
Rem(n, d) == IF n >= 0 THEN n % Abs(d) ELSE 0 - ((0 - n) % Abs(d))

DigitChar(d) ==
    CASE d = 0 -> "0" [] d = 1 -> "1" [] d = 2 -> "2" [] d = 3 -> "3"
      [] d = 4 -> "4" [] d = 5 -> "5" [] d = 6 -> "6" [] d = 7 -> "7"
      [] d = 8 -> "8" [] d = 9 -> "9"

RECURSIVE FormatNat(_)
FormatNat(n) ==
    IF n < 10 THEN <<DigitChar(n)>>
    ELSE FormatNat(n \div 10) \o <<DigitChar(n % 10)>>

\* strconv.Itoa
Itoa(n) == IF n < 0 THEN <<"-">> \o FormatNat(0 - n) ELSE FormatNat(n)

\* a switch that tests the single divisors before the pair
ElementSingleFirst(n, int1, int2, str1, str2) ==
    LET divisibleByInt1 == IF int1 # 0 THEN Rem(n, int1) = 0 ELSE FALSE
        divisibleByInt2 == IF int2 # 0 THEN Rem(n, int2) = 0 ELSE FALSE
    IN  IF divisibleByInt1 THEN str1
        ELSE IF divisibleByInt2 THEN str2
        ELSE IF divisibleByInt1 /\ divisibleByInt2 THEN str1 \o str2
        ELSE Itoa(n)

\* a loop body for which a zero divisor divides every n
ElementZeroMatches(n, int1, int2, str1, str2) ==
    LET divisibleByInt1 == IF int1 # 0 THEN Rem(n, int1) = 0 ELSE TRUE
        divisibleByInt2 == IF int2 # 0 THEN Rem(n, int2) = 0 ELSE TRUE
    IN  IF divisibleByInt1 /\ divisibleByInt2 THEN str1 \o str2
        ELSE IF divisibleByInt1 THEN str1
        ELSE IF divisibleByInt2 THEN str2
        ELSE Itoa(n)

\* the body of the loop of Generate: the element appended for n
Element(n, int1, int2, str1, str2) ==
    LET divisibleByInt1 == IF int1 # 0 THEN Rem(n, int1) = 0 ELSE FALSE
        divisibleByInt2 == IF int2 # 0 THEN Rem(n, int2) = 0 ELSE FALSE
    IN  IF divisibleByInt1 /\ divisibleByInt2 THEN str1 \o str2
        ELSE IF divisibleByInt1 THEN str1
        ELSE IF divisibleByInt2 THEN str2
        ELSE Itoa(n)

\* for n := 1; n <= limit; n++ { result = append(result, ...) }
RECURSIVE GenerateLoop(_, _, _, _, _, _, _)
GenerateLoop(n, result, int1, int2, limit, str1, str2) ==
    IF n <= limit
      THEN GenerateLoop(n + 1, Append(result, Element(n, int1, int2, str1, str2)),
                        int1, int2, limit, str1, str2)
      ELSE result

\* the largest int (of a 32-bit build: the integers of the model end there)
MaxInt == 2147483647

\* the largest capacity make([]string, 0, cap) accepts: beyond it the
\* allocation exceeds what the runtime can address, and makeslice panics;
\* it lies below MaxInt on every build (here 2^32 / 8 - 1)
MaxSliceCap == 536870911

\* make([]string, 0, cap) panics ("makeslice: cap out of range")
MakePanics(cap) == cap < 0 \/ cap > MaxSliceCap

\* the outcomes of a call: it returns a slice (result, never nil: the slice
\* comes from a literal or from make), or it panics
Returned(result) == [panic |-> FALSE, nil |-> FALSE, result |-> result]
Panicked == [panic |-> TRUE, nil |-> TRUE, result |-> <<>>]

\* a Generate without the test of limit <= 0
GenerateNoEarlyReturn(int1, int2, limit, str1, str2) ==
    IF MakePanics(limit) THEN Panicked
    ELSE Returned(GenerateLoop(1, <<>>, int1, int2, limit, str1, str2))

\* Generate: the counter n of the loop stays below MaxInt, as the loop is
\* only reached with limit <= MaxSliceCap
Generate(int1, int2, limit, str1, str2) ==
    IF limit <= 0 THEN Returned(<<>>)
    ELSE IF MakePanics(limit) THEN Panicked
    ELSE Returned(GenerateLoop(1, <<>>, int1, int2, limit, str1, str2))

\* ------------------------------------------------- parseFizzBuzzParams
\* an error message is the sequence of its pieces: the text of a fixed
\* message, or the name and the text of a formatted one
missingParamsMessage == <<"missing required parameters: int1, int2, limit, str1, str2">>

requiredParams == <<"int1", "int2", "limit", "str1", "str2">>

\* fmt.Errorf("%s" + text, name)
Errorf(name, text) == <<name, text>>

\* a positivity test that lets zero through
NotPositiveStrict(parsed) == parsed < 0

\* if parsed <= 0
NotPositive(parsed) == parsed <= 0

parsePositiveInt(value, name) ==
    LET a == Atoi(value)
    IN  IF a.err
          THEN [val |-> 0, err |-> {Errorf(name, " must be a valid integer")}]
        ELSE IF NotPositive(a.val)
          THEN [val |-> 0, err |-> {Errorf(name, " must be greater than 0")}]
        ELSE [val |-> a.val, err |-> Nil]

\* a struct literal with the two divisors exchanged
fizzBuzzParamsSwapped(int1, int2, limit, str1, str2) ==
    [int1 |-> int2, int2 |-> int1, limit |-> limit, str1 |-> str1, str2 |-> str2]

\* fizzBuzzParams{int1: int1, int2: int2, limit: limit, str1: str1, str2: str2}
fizzBuzzParams(int1, int2, limit, str1, str2) ==
    [int1 |-> int1, int2 |-> int2, limit |-> limit, str1 |-> str1, str2 |-> str2]

\* return fizzBuzzParams{}, err
Failed(message) == [params |-> fizzBuzzParams(0, 0, 0, <<>>, <<>>), err |-> {message}]

\* a presence test that takes an empty value for a missing key
AbsentOrEmpty(values, param) == param \notin DOMAIN values \/ values[param] = <<>>

\* _, exists := values[param]; !exists || len(values[param]) == 0  (a key
\* that url.ParseQuery stored has at least one value)
Absent(values, param) == param \notin DOMAIN values

\* a label test that accepts every label
EmptyLabelAccepted(str) == FALSE

\* if str1 == ""
EmptyLabel(str) == str = <<>>

\* a validator that checks int2 before int1
parseFizzBuzzParamsInt2First(values) ==
    LET str1 == Get(values, "str1")
        str2 == Get(values, "str2")
        int1 == parsePositiveInt(Get(values, "int1"), "int1")
        int2 == parsePositiveInt(Get(values, "int2"), "int2")
        limit == parsePositiveInt(Get(values, "limit"), "limit")
    IN  IF \E i \in 1..Len(requiredParams) : Absent(values, requiredParams[i])
          THEN Failed(missingParamsMessage)
        ELSE IF EmptyLabel(str1) THEN Failed(Errorf("str1", " cannot be empty"))
        ELSE IF EmptyLabel(str2) THEN Failed(Errorf("str2", " cannot be empty"))
        ELSE IF int2.err # Nil THEN [params |-> fizzBuzzParams(0, 0, 0, <<>>, <<>>),
                                     err |-> int2.err]
        ELSE IF int1.err # Nil THEN [params |-> fizzBuzzParams(0, 0, 0, <<>>, <<>>),
                                     err |-> int1.err]
        ELSE IF limit.err # Nil THEN [params |-> fizzBuzzParams(0, 0, 0, <<>>, <<>>),
                                      err |-> limit.err]
        ELSE [params |-> fizzBuzzParams(int1.val, int2.val, limit.val, str1, str2),
              err |-> Nil]

parseFizzBuzzParams(values) ==
    LET str1 == Get(values, "str1")
        str2 == Get(values, "str2")
        int1 == parsePositiveInt(Get(values, "int1"), "int1")
        int2 == parsePositiveInt(Get(values, "int2"), "int2")
        limit == parsePositiveInt(Get(values, "limit"), "limit")
    IN  IF \E i \in 1..Len(requiredParams) : Absent(values, requiredParams[i])
          THEN Failed(missingParamsMessage)
        ELSE IF EmptyLabel(str1) THEN Failed(Errorf("str1", " cannot be empty"))
        ELSE IF EmptyLabel(str2) THEN Failed(Errorf("str2", " cannot be empty"))
        ELSE IF int1.err # Nil THEN [params |-> fizzBuzzParams(0, 0, 0, <<>>, <<>>),
                                     err |-> int1.err]
        ELSE IF int2.err # Nil THEN [params |-> fizzBuzzParams(0, 0, 0, <<>>, <<>>),
                                     err |-> int2.err]
        ELSE IF limit.err # Nil THEN [params |-> fizzBuzzParams(0, 0, 0, <<>>, <<>>),
                                      err |-> limit.err]
        ELSE [params |-> fizzBuzzParams(int1.val, int2.val, limit.val, str1, str2),
              err |-> Nil]

\* no direct call of Generate is made
NoCall ==
    [called |-> FALSE, int1 |-> 0, int2 |-> 0, limit |-> 0, str1 |-> <<>>,
     str2 |-> <<>>, panic |-> FALSE, nil |-> TRUE, result |-> <<>>]

\* no direct call of parseFizzBuzzParams is made
NoParse == [called |-> FALSE, values |-> EmptyMap, result |-> {}]

\* active: the request passes the Statistics middleware of a store, behind a
\* statusRecorder; store: the handler that serves it has a store
\* (h.store != nil); status: the status of its statusRecorder; wrote: the
\* status sent to the client (0: none yet); parsed: what parseFizzBuzzParams
\* returned; body: the JSON value written; panicked: the handler panicked;
\* handled: how many times the handler of the route has run for the request
NoRequest ==
    [active |-> FALSE, route |-> "", store |-> TRUE, query |-> EmptyMap, status |-> 0,
     wrote |-> 0, calls |-> 0, setNonOK |-> FALSE, before |-> EmptyMap, parsed |-> {},
     body |-> {}, panicked |-> FALSE, handled |-> 0]

\* the RequestLogger before its first request.  pc: where the request is;
\* logger: logger != nil; status, bytes, wroteHeader: the fields of wrapped;
\* sent: the status the underlying writer sent (0: none yet); calls, writes:
\* the WriteHeader and Write calls of the handler; raised: the value the
\* handler panicked with; panicValue: the variable of that name; entries: the
\* log; logged: the length of the log when the request arrived; propagated:
\* the panic that left the middleware; served: the requests finished
NoLog ==
    [pc |-> "idle", logger |-> TRUE, status |-> 0, bytes |-> 0, wroteHeader |-> FALSE,
     sent |-> 0, calls |-> 0, writes |-> 0, raised |-> {}, panicValue |-> {},
     entries |-> <<>>, logged |-> 0, propagated |-> {}, served |-> 0]

\* the server after main has built the store, and no request served yet
InitServer ==
    /\ requests = NewStore
    /\ mu = NewRWMutex
    /\ pc = [t \in Threads |-> "idle"]
    /\ arg = [t \in Threads |-> ZeroParams]
    /\ tmp = [t \in Threads |-> 0]
    /\ scan = [t \in Threads |-> NoScan]
    /\ snap = [t \in Threads |-> EmptyMap]
    /\ mw = [t \in Threads |-> NoRequest]
    /\ invoked = EmptyMap
    /\ returned = EmptyMap
    /\ qlo = [t \in Threads |-> EmptyMap]

Init ==
    /\ InitServer
    /\ gen = NoCall
    /\ prs = NoParse
    /\ lg = NoLog

\* ------------------------------------------------------- direct calls
\* the arguments of the direct calls of Generate (TestGenerate): divisors of
\* either sign and zero, limits from below zero and the two ends of int,
\* labels empty or not
GenerateLabels1 == {<<>>, <<"a">>, <<"f", "i", "z", "z">>}
GenerateLabels2 == {<<>>, <<"7">>, <<"b", "u", "z", "z">>}

GenerateLimits == ((0 - 1)..MaxLimit) \cup {0 - MaxInt - 1, MaxInt}

GenerateInputs ==
    { [called |-> FALSE, int1 |-> a, int2 |-> b, limit |-> l, str1 |-> s1,
       str2 |-> s2, panic |-> FALSE, nil |-> TRUE, result |-> <<>>] :
        a \in (0 - MaxDivisor)..MaxDivisor, b \in (0 - MaxDivisor)..MaxDivisor,
        l \in GenerateLimits, s1 \in GenerateLabels1, s2 \in GenerateLabels2 }

\* a test is about to call Generate with some arguments
InitGenerate ==
    /\ InitServer
    /\ gen \in GenerateInputs
    /\ prs = NoParse
    /\ lg = NoLog

\* result := Generate(int1, int2, limit, str1, str2)
CallGenerate ==
    /\ ~gen.called
    /\ LET out == Generate(gen.int1, gen.int2, gen.limit, gen.str1, gen.str2)
       IN  gen' = [gen EXCEPT !.called = TRUE, !.panic = out.panic, !.nil = out.nil,
                              !.result = out.result]
    /\ UNCHANGED <<requests, mu, pc, arg, tmp, scan, snap, mw, invoked, returned, qlo, prs, lg>>

\* a request is about to be validated
InitParse ==
    /\ InitServer
    /\ gen = NoCall
    /\ prs \in {[called |-> FALSE, values |-> q, result |-> {}] : q \in ParseQueries}
    /\ lg = NoLog

\* params, err := parseFizzBuzzParams(values)
CallParse ==
    /\ ~prs.called
    /\ prs' = [prs EXCEPT !.called = TRUE, !.result = {parseFizzBuzzParams(prs.values)}]
    /\ UNCHANGED <<requests, mu, pc, arg, tmp, scan, snap, mw, invoked, returned, qlo, gen, lg>>

\* ------------------------------------------------------------ Store.Record
\* a goroutine calls store.Record(p)
CallRecord(t, p, cap) ==
    /\ pc[t] = "idle"
    /\ TotalInvoked < cap
    /\ pc' = [pc EXCEPT ![t] = "Lock"]
    /\ arg' = [arg EXCEPT ![t] = p]
    /\ invoked' = MapSet(invoked, p, MapGet(invoked, p) + 1)
    /\ UNCHANGED <<requests, mu, tmp, scan, snap, mw, returned, qlo, gen, prs, lg>>

\* a Record call that skips the lock
LockSkipped(t) ==
    /\ pc[t] = "Lock"
    /\ pc' = [pc EXCEPT ![t] = "load"]
    /\ UNCHANGED <<requests, mu, arg, tmp, scan, snap, mw, invoked, returned, qlo, gen, prs, lg>>

\* a write lock that does not wait for the readers holding the lock
LockIgnoresReaders(t) ==
    /\ pc[t] = "Lock"
    /\ mu.w = NoThread
    /\ mu' = [mu EXCEPT !.w = t, !.writerPending = TRUE]
    /\ pc' = [pc EXCEPT ![t] = "load"]
    /\ UNCHANGED <<requests, arg, tmp, scan, snap, mw, invoked, returned, qlo, gen, prs, lg>>

\* s.mu.Lock(): take the writer mutex, announce the writer to the readers,
\* and wait for the readers that hold the lock to leave
Lock(t) ==
    /\ pc[t] = "Lock"
    /\ mu.w = NoThread
    /\ IF mu.readerCount = 0
         THEN /\ mu' = [mu EXCEPT !.w = t, !.writerPending = TRUE]
              /\ pc' = [pc EXCEPT ![t] = "load"]
         ELSE /\ mu' = [mu EXCEPT !.w = t, !.writerPending = TRUE,
                                  !.readerWait = mu.readerCount]
              /\ pc' = [pc EXCEPT ![t] = "wdrain"]
    /\ UNCHANGED <<requests, arg, tmp, scan, snap, mw, invoked, returned, qlo, gen, prs, lg>>

\* s.requests[params]++ : the load of the current count
RecordLoad(t) ==
    /\ pc[t] = "load"
    /\ tmp' = [tmp EXCEPT ![t] = MapGet(requests, arg[t])]
    /\ pc' = [pc EXCEPT ![t] = "store"]
    /\ UNCHANGED <<requests, mu, arg, scan, snap, mw, invoked, returned, qlo, gen, prs, lg>>

\* an assignment of 1 in place of the increment
StoredOne(c) == 1

\* the value s.requests[params]++ stores back
Incremented(c) == c + 1

\* a store that replaces the map by one holding only the new entry
MapReplaced(m, k, v) == [x \in {k} |-> v]

\* a store that also raises the count of every other entry
MapStoreRaisesAll(m, k, v) ==
    [x \in DOMAIN m \cup {k} |-> IF x = k THEN v ELSE m[x] + 1]

\* s.requests[params] = v
MapStore(m, k, v) == MapSet(m, k, v)

\* s.requests[params]++ : the store of the incremented count
RecordStore(t) ==
    /\ pc[t] = "store"
    /\ requests' = MapStore(requests, arg[t], Incremented(tmp[t]))
    /\ tmp' = [tmp EXCEPT ![t] = 0]
    /\ pc' = [pc EXCEPT ![t] = "Unlock"]
    /\ UNCHANGED <<mu, arg, scan, snap, mw, invoked, returned, qlo, gen, prs, lg>>

\* the readers that blocked in RLock behind the writer
BlockedReaders == {u \in Threads : pc[u] = "rblocked"}

\* where a reader that has the read lock starts
AfterRLock == IF DOMAIN requests = {} THEN "RUnlock" ELSE "range"

\* defer s.mu.Unlock(), and Record returns to its caller: the readers that
\* blocked behind the writer are all let in before the writer mutex is released
Unlock(t) ==
    /\ pc[t] = "Unlock"
    /\ mu' = [mu EXCEPT !.w = NoThread, !.writerPending = FALSE, !.readerWait = 0]
    /\ pc' = [u \in Threads |->
                IF u = t THEN (IF mw[t].active THEN "served" ELSE "idle")
                ELSE IF u \in BlockedReaders THEN AfterRLock
                ELSE pc[u]]
    /\ scan' = [u \in Threads |->
                IF u \in BlockedReaders THEN ScanInit(requests) ELSE scan[u]]
    /\ snap' = [u \in Threads |->
                IF u \in BlockedReaders THEN requests ELSE snap[u]]
    /\ returned' = MapSet(returned, arg[t], MapGet(returned, arg[t]) + 1)
    /\ arg' = [arg EXCEPT ![t] = ZeroParams]
    /\ UNCHANGED <<requests, tmp, mw, invoked, qlo, gen, prs, lg>>

\* --------------------------------------------------- Store.GetMostFrequent
\* a goroutine calls store.GetMostFrequent(); timed: the call remembers how
\* many Records had returned when it was invoked
CallGetMostFrequent(t, timed) ==
    /\ pc[t] = "idle"
    /\ pc' = [pc EXCEPT ![t] = "RLock"]
    /\ qlo' = [qlo EXCEPT ![t] = IF timed THEN returned ELSE EmptyMap]
    /\ UNCHANGED <<requests, mu, arg, tmp, scan, snap, mw, invoked, returned, gen, prs, lg>>

\* a read lock that a writer holding or awaiting the lock does not stop
RLockIgnoresWriter(t) ==
    /\ pc[t] = "RLock"
    /\ mu' = [mu EXCEPT !.readerCount = @ + 1]
    /\ pc' = [pc EXCEPT ![t] = AfterRLock]
    /\ scan' = [scan EXCEPT ![t] = ScanInit(requests)]
    /\ snap' = [snap EXCEPT ![t] = requests]
    /\ UNCHANGED <<requests, arg, tmp, mw, invoked, returned, qlo, gen, prs, lg>>

\* s.mu.RLock(): a reader enters unless a writer holds or awaits the lock
RLock(t) ==
    /\ pc[t] = "RLock"
    /\ IF mu.writerPending
         THEN /\ mu' = [mu EXCEPT !.readerCount = @ + 1]
              /\ pc' = [pc EXCEPT ![t] = "rblocked"]
              /\ UNCHANGED <<scan, snap>>
         ELSE /\ mu' = [mu EXCEPT !.readerCount = @ + 1]
              /\ pc' = [pc EXCEPT ![t] = AfterRLock]
              /\ scan' = [scan EXCEPT ![t] = ScanInit(requests)]
              /\ snap' = [snap EXCEPT ![t] = requests]
    /\ UNCHANGED <<requests, arg, tmp, mw, invoked, returned, qlo, gen, prs, lg>>

\* a comparison that keeps the first entry visited
ReplacesNever(found, hits, maxHits) == ~found

\* a comparison turned around
ReplacesSmaller(found, hits, maxHits) == ~found \/ hits < maxHits

\* if !found || hits > maxHits
Replaces(found, hits, maxHits) == ~found \/ hits > maxHits

\* one iteration of  for params, hits := range s.requests  (the order of the
\* iterations is not specified)
RangeStep(t) ==
    /\ pc[t] = "range"
    /\ \E params \in scan[t].remaining :
         LET hits == MapGet(requests, params)
             rest == scan[t].remaining \ {params}
         IN  /\ scan' = [scan EXCEPT ![t] =
                   IF Replaces(scan[t].found, hits, scan[t].maxHits)
                     THEN [remaining |-> rest, maxParams |-> params,
                           maxHits |-> hits, found |-> TRUE]
                     ELSE [scan[t] EXCEPT !.remaining = rest]]
             /\ pc' = [pc EXCEPT ![t] = IF rest = {} THEN "RUnlock" ELSE "range"]
    /\ UNCHANGED <<requests, mu, arg, tmp, snap, mw, invoked, returned, qlo, gen, prs, lg>>

\* a result that skips the check of found
ResultUnchecked(s) ==
    [stats |-> {[Params |-> s.maxParams, Hits |-> s.maxHits]}, ok |-> TRUE]

\* if !found { return nil, false }; result := Stats{...}; return &result, true
Result(s) ==
    IF ~s.found
      THEN [stats |-> Nil, ok |-> FALSE]
      ELSE [stats |-> {[Params |-> s.maxParams, Hits |-> s.maxHits]}, ok |-> TRUE]

\* ------------------------------------------------------------ the handlers
ErrorResponse(message) == [error |-> message]
FizzBuzzResponse(result) == [result |-> result]

\* respondJSON(w, status, data): w.WriteHeader(status) and w.Write(payload);
\* w is the statusRecorder when the request passes the middleware.  (The
\* values marshalled are strings and integers, json.Marshal does not fail.)
respondJSON(m, status, data) ==
    [m EXCEPT !.status = IF m.active THEN status ELSE @,
              !.wrote = IF @ = 0 THEN status ELSE @,
              !.calls = @ + 1,
              !.setNonOK = @ \/ status # StatusOK,
              !.body = {data}]

respondError(m, status, message) == respondJSON(m, status, ErrorResponse(message))

noStatisticsMessage == <<"no statistics available">>

\* StatisticsResponse{Params: StatisticsParams{...}, Hits: stats.Hits}
StatisticsResponse(stats) ==
    [params |-> [Int1 |-> stats.Params.Int1, Int2 |-> stats.Params.Int2,
                 Limit |-> stats.Params.Limit, Str1 |-> stats.Params.Str1,
                 Str2 |-> stats.Params.Str2],
     hits |-> stats.Hits]

\* a handler that answers 200 with the zero response when nothing was found
StatisticsAlwaysOK(m, res) ==
    IF ~m.store THEN respondError(m, StatusNotFound, noStatisticsMessage)
    ELSE IF ~res.ok
      THEN respondJSON(m, StatusOK, StatisticsResponse([Params |-> ZeroParams, Hits |-> 0]))
    ELSE respondJSON(m, StatusOK, StatisticsResponse(CHOOSE stats \in res.stats : TRUE))

\* Handler.Statistics on the request m, res being what GetMostFrequent
\* returned (not called when the handler has no store)
Statistics(m, res) ==
    IF ~m.store THEN respondError(m, StatusNotFound, noStatisticsMessage)
    ELSE IF ~res.ok THEN respondError(m, StatusNotFound, noStatisticsMessage)
    ELSE respondJSON(m, StatusOK, StatisticsResponse(CHOOSE stats \in res.stats : TRUE))

\* a read unlock that does not wake the writer waiting for it
RUnlockNoWake(t) ==
    /\ pc[t] = "RUnlock"
    /\ mu' = [mu EXCEPT !.readerCount = @ - 1]
    /\ pc' = [pc EXCEPT ![t] = "idle"]
    /\ scan' = [scan EXCEPT ![t] = NoScan]
    /\ snap' = [snap EXCEPT ![t] = EmptyMap]
    /\ qlo' = [qlo EXCEPT ![t] = EmptyMap]
    /\ UNCHANGED <<requests, arg, tmp, mw, invoked, returned, gen, prs, lg>>

\* defer s.mu.RUnlock(), and GetMostFrequent returns Result(scan[t]): the last
\* reader a pending writer waits for wakes that writer.  The /statistics
\* handler keeps what was returned (stats, ok) until it answers.
RUnlock(t) ==
    /\ pc[t] = "RUnlock"
    /\ LET wake == mu.writerPending /\ mu.readerWait = 1
       IN  /\ mu' = [mu EXCEPT !.readerCount = @ - 1,
                               !.readerWait = IF mu.writerPending THEN @ - 1 ELSE @]
           /\ pc' = [u \in Threads |->
                       IF u = t
                         THEN (IF mw[t].route = "/statistics" THEN "respond" ELSE "idle")
                       ELSE IF wake /\ u = mu.w THEN "load"
                       ELSE pc[u]]
    /\ IF mw[t].route = "/statistics"
         THEN UNCHANGED <<scan, snap, qlo>>
         ELSE /\ scan' = [scan EXCEPT ![t] = NoScan]
              /\ snap' = [snap EXCEPT ![t] = EmptyMap]
              /\ qlo' = [qlo EXCEPT ![t] = EmptyMap]
    /\ UNCHANGED <<requests, arg, tmp, mw, invoked, returned, gen, prs, lg>>

\* a *Stats that points into the store: its Hits is the count the store holds
\* for its Params when it is read
StatsInStore(res, m) ==
    IF ~res.ok THEN res
    ELSE LET stats == CHOOSE st \in res.stats : TRUE
         IN  [res EXCEPT !.stats = {[stats EXCEPT !.Hits = MapGet(m, stats.Params)]}]

\* what the caller reads through the *Stats it was returned, when the store
\* holds the map m: result is a variable of the call that returned it, built
\* from the locals maxParams and maxHits, and no Record writes to it
StatsRead(res, m) == res

\* Handler.Statistics after GetMostFrequent has returned: it reads stats.Params
\* and stats.Hits and answers
StatisticsRespond(t) ==
    /\ pc[t] = "respond"
    /\ mw' = [mw EXCEPT ![t] = Statistics(@, StatsRead(Result(scan[t]), requests))]
    /\ pc' = [pc EXCEPT ![t] = "served"]
    /\ scan' = [scan EXCEPT ![t] = NoScan]
    /\ snap' = [snap EXCEPT ![t] = EmptyMap]
    /\ qlo' = [qlo EXCEPT ![t] = EmptyMap]
    /\ UNCHANGED <<requests, mu, arg, tmp, invoked, returned, gen, prs, lg>>

\* the router calls h.Statistics(w, r): a handler without a store answers at
\* once, a handler with a store calls h.store.GetMostFrequent()
ServeStatistics(t, store, q) ==
    /\ pc[t] \in {"idle", "served"}
    /\ LET m == [NoRequest EXCEPT !.route = "/statistics", !.store = store,
                                  !.query = q, !.before = requests]
       IN  IF store
             THEN /\ mw' = [mw EXCEPT ![t] = m]
                  /\ pc' = [pc EXCEPT ![t] = "RLock"]
                  /\ qlo' = [qlo EXCEPT ![t] = returned]
             ELSE /\ mw' = [mw EXCEPT ![t] = Statistics(m, Result(NoScan))]
                  /\ pc' = [pc EXCEPT ![t] = "served"]
                  /\ UNCHANGED qlo
    /\ UNCHANGED <<requests, mu, arg, tmp, scan, snap, invoked, returned, gen, prs, lg>>

\* HealthResponse{Status: "ok", Service: "fizzbuzz-api"}
HealthResponse == [status |-> <<"ok">>, service |-> <<"fizzbuzz-api">>]

\* a /health route registered behind the Statistics middleware
HealthRecorded(t, q) ==
    /\ pc[t] \in {"idle", "served"}
    /\ mw' = [mw EXCEPT ![t] =
                respondJSON([NoRequest EXCEPT !.active = TRUE, !.route = "/health",
                                              !.query = q, !.status = StatusOK,
                                              !.before = requests, !.handled = 1],
                            StatusOK, HealthResponse)]
    /\ pc' = [pc EXCEPT ![t] = "check"]
    /\ UNCHANGED <<requests, mu, arg, tmp, scan, snap, invoked, returned, qlo, gen, prs, lg>>

\* the router calls h.Health(w, r), registered without the middleware: the
\* handler answers 200 whatever the query is
Health(t, q) ==
    /\ pc[t] \in {"idle", "served"}
    /\ mw' = [mw EXCEPT ![t] =
                respondJSON([NoRequest EXCEPT !.route = "/health", !.query = q,
                                              !.before = requests, !.handled = 1],
                            StatusOK, HealthResponse)]
    /\ pc' = [pc EXCEPT ![t] = "served"]
    /\ UNCHANGED <<requests, mu, arg, tmp, scan, snap, invoked, returned, qlo, gen, prs, lg>>

\* the paths of requests for which main registers no route
OtherPaths == {"/other", "/fizzbuzz/"}

\* a request to a path with no route: the router answers 404 itself, no
\* handler and no middleware of a route runs
NotFoundHandler(t, path, q) ==
    /\ pc[t] \in {"idle", "served"}
    /\ mw' = [mw EXCEPT ![t] =
                [NoRequest EXCEPT !.route = path, !.query = q, !.before = requests,
                                  !.wrote = StatusNotFound, !.setNonOK = TRUE]]
    /\ pc' = [pc EXCEPT ![t] = "served"]
    /\ UNCHANGED <<requests, mu, arg, tmp, scan, snap, invoked, returned, qlo, gen, prs, lg>>

\* ---------------------------------------------------- Statistics middleware
\* a middleware that goes on to its check without calling the handler
ServeHTTPSkipsHandler(t, q, cap) ==
    /\ pc[t] \in {"idle", "served"}
    /\ TotalInvoked < cap
    /\ mw' = [mw EXCEPT ![t] =
                [active |-> TRUE, route |-> "/fizzbuzz", store |-> TRUE, query |-> q,
                 status |-> StatusOK, wrote |-> 0, calls |-> 0, setNonOK |-> FALSE,
                 before |-> requests, parsed |-> {}, body |-> {}, panicked |-> FALSE,
                 handled |-> 0]]
    /\ pc' = [pc EXCEPT ![t] = "check"]
    /\ UNCHANGED <<requests, mu, arg, tmp, scan, snap, invoked, returned, qlo, gen, prs, lg>>

\* the middleware is entered with a request: rec := &statusRecorder{w, 200},
\* and the wrapped handler is called with rec
ServeHTTP(t, q, cap) ==
    /\ pc[t] \in {"idle", "served"}
    /\ TotalInvoked < cap
    /\ mw' = [mw EXCEPT ![t] =
                [active |-> TRUE, route |-> "/fizzbuzz", store |-> TRUE, query |-> q,
                 status |-> StatusOK, wrote |-> 0, calls |-> 0, setNonOK |-> FALSE,
                 before |-> requests, parsed |-> {}, body |-> {}, panicked |-> FALSE,
                 handled |-> 0]]
    /\ pc' = [pc EXCEPT ![t] = "next"]
    /\ UNCHANGED <<requests, mu, arg, tmp, scan, snap, invoked, returned, qlo, gen, prs, lg>>

\* the middleware built with store == nil is entered with a request: the
\* wrapped handler is called with the writer itself, and the middleware
\* returns when the handler does
ServeHTTPNilStore(t, q) ==
    /\ pc[t] \in {"idle", "served"}
    /\ mw' = [mw EXCEPT ![t] =
                [NoRequest EXCEPT !.route = "/fizzbuzz", !.store = FALSE, !.query = q,
                                  !.before = requests]]
    /\ pc' = [pc EXCEPT ![t] = "next"]
    /\ UNCHANGED <<requests, mu, arg, tmp, scan, snap, invoked, returned, qlo, gen, prs, lg>>

\* the wrapped handler calls WriteHeader(code): statusRecorder.WriteHeader
\* keeps the code and passes it on; the underlying writer keeps the first
\* status it is given
HandlerWriteHeader(t, code) ==
    /\ pc[t] = "next"
    /\ mw[t].calls < MaxWriteHeaders
    /\ mw' = [mw EXCEPT ![t].status = IF mw[t].active THEN code ELSE @,
                        ![t].wrote = IF @ = 0 THEN code ELSE @,
                        ![t].calls = @ + 1,
                        ![t].setNonOK = @ \/ code # StatusOK]
    /\ UNCHANGED <<requests, mu, pc, arg, tmp, scan, snap, invoked, returned, qlo, gen, prs, lg>>

\* the wrapped handler writes body bytes before any WriteHeader: Write is the
\* embedded writer's, which sends the header with status 200
HandlerWrite(t) ==
    /\ pc[t] = "next"
    /\ mw[t].wrote = 0
    /\ mw' = [mw EXCEPT ![t].wrote = StatusOK]
    /\ UNCHANGED <<requests, mu, pc, arg, tmp, scan, snap, invoked, returned, qlo, gen, prs, lg>>

\* next.ServeHTTP(rec, r) returns: the middleware of a store goes on to its
\* check, the middleware without a store returns
HandlerReturn(t) ==
    /\ pc[t] = "next"
    /\ mw' = [mw EXCEPT ![t].handled = @ + 1]
    /\ pc' = [pc EXCEPT ![t] = IF mw[t].active THEN "check" ELSE "served"]
    /\ UNCHANGED <<requests, mu, arg, tmp, scan, snap, invoked, returned, qlo, gen, prs, lg>>

\* a middleware that recovers from the panic of the handler and goes on to
\* its check
HandlerPanicRecovered(t) ==
    /\ pc[t] = "next"
    /\ mw' = [mw EXCEPT ![t].handled = @ + 1, ![t].panicked = TRUE]
    /\ pc' = [pc EXCEPT ![t] = IF mw[t].active THEN "check" ELSE "served"]
    /\ UNCHANGED <<requests, mu, arg, tmp, scan, snap, invoked, returned, qlo, gen, prs, lg>>

\* next.ServeHTTP(rec, r) panics: the middleware has no deferred call and no
\* recover, the panic leaves it at once and is answered by the Recoverer
\* above it
HandlerPanic(t) ==
    /\ pc[t] = "next"
    /\ mw' = [mw EXCEPT ![t].handled = @ + 1, ![t].panicked = TRUE]
    /\ pc' = [pc EXCEPT ![t] = "served"]
    /\ UNCHANGED <<requests, mu, arg, tmp, scan, snap, invoked, returned, qlo, gen, prs, lg>>

\* a handler that answers 200 whatever the validator said
FizzBuzzAlwaysOK(m) ==
    LET parsed == parseFizzBuzzParams(m.query)
        params == parsed.params
        out == Generate(params.int1, params.int2, params.limit,
                        params.str1, params.str2)
    IN  IF out.panic THEN [m EXCEPT !.parsed = {parsed}, !.panicked = TRUE]
        ELSE respondJSON([m EXCEPT !.parsed = {parsed}], StatusOK,
                         FizzBuzzResponse(out.result))

\* Handler.FizzBuzz on the request m
FizzBuzz(m) ==
    LET parsed == parseFizzBuzzParams(m.query)
        params == parsed.params
        out == Generate(params.int1, params.int2, params.limit,
                        params.str1, params.str2)
    IN  IF parsed.err # Nil
          THEN respondError([m EXCEPT !.parsed = {parsed}], StatusBadRequest,
                            CHOOSE message \in parsed.err : TRUE)
        ELSE IF out.panic THEN [m EXCEPT !.parsed = {parsed}, !.panicked = TRUE]
        ELSE respondJSON([m EXCEPT !.parsed = {parsed}], StatusOK,
                         FizzBuzzResponse(out.result))

\* next.ServeHTTP(rec, r) with next = h.FizzBuzz, from the call to the
\* return, or to the panic, which leaves the middleware at once
HandlerFizzBuzz(t) ==
    /\ pc[t] = "next"
    /\ mw' = [mw EXCEPT ![t] = [FizzBuzz(@) EXCEPT !.handled = @ + 1]]
    /\ pc' = [pc EXCEPT ![t] = IF FizzBuzz(mw[t]).panicked THEN "served" ELSE "check"]
    /\ UNCHANGED <<requests, mu, arg, tmp, scan, snap, invoked, returned, qlo, gen, prs, lg>>

\* a middleware that does not look at the status the handler set
ToRecordAnyStatus(status, query) ==
    LET int1Str == Get(query, "int1")
        int2Str == Get(query, "int2")
        limitStr == Get(query, "limit")
        str1 == Get(query, "str1")
        str2 == Get(query, "str2")
    IN  IF int1Str = <<>> \/ int2Str = <<>> \/ limitStr = <<>>
           \/ str1 = <<>> \/ str2 = <<>> THEN {}
        ELSE IF Atoi(int1Str).err \/ Atoi(int2Str).err \/ Atoi(limitStr).err THEN {}
        ELSE {createParams(Atoi(int1Str).val, Atoi(int2Str).val, Atoi(limitStr).val,
                           str1, str2)}

\* what the middleware passes to store.Record after the handler returned with
\* rec.status = status: nothing ({}) or one params value
ToRecord(status, query) ==
    LET int1Str == Get(query, "int1")
        int2Str == Get(query, "int2")
        limitStr == Get(query, "limit")
        str1 == Get(query, "str1")
        str2 == Get(query, "str2")
    IN  IF status # StatusOK THEN {}
        ELSE IF int1Str = <<>> \/ int2Str = <<>> \/ limitStr = <<>>
                \/ str1 = <<>> \/ str2 = <<>> THEN {}
        ELSE IF Atoi(int1Str).err THEN {}
        ELSE IF Atoi(int2Str).err THEN {}
        ELSE IF Atoi(limitStr).err THEN {}
        ELSE {createParams(Atoi(int1Str).val, Atoi(int2Str).val, Atoi(limitStr).val,
                           str1, str2)}

\* the middleware after the handler: return, or call store.Record(params)
StatisticsRecord(t) ==
    /\ pc[t] = "check"
    /\ LET rec == ToRecord(mw[t].status, mw[t].query)
       IN  IF rec = {}
             THEN /\ pc' = [pc EXCEPT ![t] = "served"]
                  /\ UNCHANGED <<arg, invoked>>
             ELSE \E p \in rec :
                  /\ pc' = [pc EXCEPT ![t] = "Lock"]
                  /\ arg' = [arg EXCEPT ![t] = p]
                  /\ invoked' = MapSet(invoked, p, MapGet(invoked, p) + 1)
    /\ UNCHANGED <<requests, mu, tmp, scan, snap, mw, returned, qlo, gen, prs, lg>>

\* ----------------------------------------------------------- RequestLogger
LevelInfo == "INFO"
LevelWarn == "WARN"
LevelError == "ERROR"

\* levelFromStatus(status)
levelFromStatus(status) ==
    IF status >= 500 THEN LevelError
    ELSE IF status >= 400 THEN LevelWarn
    ELSE LevelInfo

\* the values handlers panic with
PanicValues == {"test panic", "boom"}

\* the middleware is entered with a request: wrapped :=
\* &responseWriter{ResponseWriter: w, status: http.StatusOK}, var panicValue
\* any, and next.ServeHTTP(wrapped, r) is called
RequestLogger(logger) ==
    /\ lg.pc \in {"idle", "done"}
    /\ lg.served < MaxLogRequests
    /\ lg' = [NoLog EXCEPT !.pc = "next", !.logger = logger, !.status = StatusOK,
                           !.entries = lg.entries, !.logged = Len(lg.entries),
                           !.served = lg.served]
    /\ UNCHANGED <<requests, mu, pc, arg, tmp, scan, snap, mw, invoked, returned, qlo, gen, prs>>

\* responseWriter.WriteHeader(code): status and wroteHeader are set and the
\* code is passed on; the underlying writer keeps the first status it is
\* given
responseWriterWriteHeader(code) ==
    /\ lg.pc = "next"
    /\ lg.calls < MaxWriteHeaders
    /\ lg' = [lg EXCEPT !.status = code, !.wroteHeader = TRUE,
                        !.sent = IF @ = 0 THEN code ELSE @,
                        !.calls = @ + 1]
    /\ UNCHANGED <<requests, mu, pc, arg, tmp, scan, snap, mw, invoked, returned, qlo, gen, prs>>

\* responseWriter.Write(b) with one byte: a first Write without WriteHeader
\* sets status 200 and wroteHeader, and the underlying writer sends the
\* header with status 200
responseWriterWrite ==
    /\ lg.pc = "next"
    /\ lg.writes < MaxLogWrites
    /\ lg' = [lg EXCEPT !.status = IF lg.wroteHeader THEN @ ELSE StatusOK,
                        !.wroteHeader = TRUE,
                        !.sent = IF @ = 0 THEN StatusOK ELSE @,
                        !.bytes = @ + 1,
                        !.writes = @ + 1]
    /\ UNCHANGED <<requests, mu, pc, arg, tmp, scan, snap, mw, invoked, returned, qlo, gen, prs>>

\* next.ServeHTTP(wrapped, r) returns: recover() yields nil
LoggerHandlerReturn ==
    /\ lg.pc = "next"
    /\ lg' = [lg EXCEPT !.pc = "deferred"]
    /\ UNCHANGED <<requests, mu, pc, arg, tmp, scan, snap, mw, invoked, returned, qlo, gen, prs>>

\* next.ServeHTTP(wrapped, r) panics with value: the deferred function of the
\* inner closure recovers it, sets status 500 unless a header was written,
\* and keeps the value in panicValue
LoggerHandlerPanic(value) ==
    /\ lg.pc = "next"
    /\ lg' = [lg EXCEPT !.pc = "deferred",
                        !.raised = {value},
                        !.status = IF lg.wroteHeader THEN @
                                   ELSE StatusInternalServerError,
                        !.panicValue = {value}]
    /\ UNCHANGED <<requests, mu, pc, arg, tmp, scan, snap, mw, invoked, returned, qlo, gen, prs>>

\* the log entry of the deferred function: the level of the status, ERROR
\* with the panic attribute when panicValue != nil
LogEntry(l) ==
    [level |-> IF l.panicValue # Nil THEN LevelError ELSE levelFromStatus(l.status),
     status |-> l.status,
     bytes |-> l.bytes,
     panic |-> l.panicValue]

\* the deferred function of the middleware: logger.LogAttrs(...) if
\* logger != nil, then panic(panicValue) if panicValue != nil
LoggerDeferred ==
    /\ lg.pc = "deferred"
    /\ lg' = [lg EXCEPT !.pc = "done",
                        !.entries = IF lg.logger THEN Append(@, LogEntry(lg)) ELSE @,
                        !.propagated = lg.panicValue,
                        !.served = @ + 1]
    /\ UNCHANGED <<requests, mu, pc, arg, tmp, scan, snap, mw, invoked, returned, qlo, gen, prs>>

\* ------------------------------------------------------------------- Spec
\* any number of goroutines call Record and GetMostFrequent concurrently
Next ==
    \/ \E t \in Threads : \E p \in ConcParams : CallRecord(t, p, MaxRecords)
    \/ \E t \in Threads : Lock(t)
    \/ \E t \in Threads : RecordLoad(t)
    \/ \E t \in Threads : RecordStore(t)
    \/ \E t \in Threads : Unlock(t)
    \/ \E t \in Threads : CallGetMostFrequent(t, FALSE)
    \/ \E t \in Threads : RLock(t)
    \/ \E t \in Threads : RangeStep(t)
    \/ \E t \in Threads : RUnlock(t)

Spec == Init /\ [][Next]_vars

\* the same concurrent callers, every query timed against the Records
NextLin ==
    \/ \E t \in Threads : \E p \in ConcParams : CallRecord(t, p, MaxLinRecords)
    \/ \E t \in Threads : Lock(t)
    \/ \E t \in Threads : RecordLoad(t)
    \/ \E t \in Threads : RecordStore(t)
    \/ \E t \in Threads : Unlock(t)
    \/ \E t \in Threads : CallGetMostFrequent(t, TRUE)
    \/ \E t \in Threads : RLock(t)
    \/ \E t \in Threads : RangeStep(t)
    \/ \E t \in Threads : RUnlock(t)

SpecLin == Init /\ [][NextLin]_vars

\* a single goroutine calls Record and GetMostFrequent one after the other
\* (the table tests of the store)
NextSeq ==
    \/ \E t \in SeqThreads : \E p \in ParamsUniverse : CallRecord(t, p, MaxSeqRecords)
    \/ \E t \in SeqThreads : Lock(t)
    \/ \E t \in SeqThreads : RecordLoad(t)
    \/ \E t \in SeqThreads : RecordStore(t)
    \/ \E t \in SeqThreads : Unlock(t)
    \/ \E t \in SeqThreads : CallGetMostFrequent(t, FALSE)
    \/ \E t \in SeqThreads : RLock(t)
    \/ \E t \in SeqThreads : RangeStep(t)
    \/ \E t \in SeqThreads : RUnlock(t)

SpecSeq == Init /\ [][NextSeq]_vars

\* a single goroutine sends requests through the Statistics middleware, one
\* after the other, to a handler that sets whatever status it likes
NextMW ==
    \/ \E t \in SeqThreads : \E q \in Queries : ServeHTTP(t, q, MaxMWRecords)
    \/ \E t \in SeqThreads : \E code \in StatusCodes : HandlerWriteHeader(t, code)
    \/ \E t \in SeqThreads : HandlerWrite(t)
    \/ \E t \in SeqThreads : HandlerReturn(t)
    \/ \E t \in SeqThreads : StatisticsRecord(t)
    \/ \E t \in SeqThreads : Lock(t)
    \/ \E t \in SeqThreads : RecordLoad(t)
    \/ \E t \in SeqThreads : RecordStore(t)
    \/ \E t \in SeqThreads : Unlock(t)

SpecMW == Init /\ [][NextMW]_vars

\* a single goroutine serves requests to the /fizzbuzz route as main wires
\* it: the Statistics middleware around Handler.FizzBuzz
NextRoute ==
    \/ \E t \in SeqThreads : \E q \in RouteQueries : ServeHTTP(t, q, MaxRouteRecords)
    \/ \E t \in SeqThreads : HandlerFizzBuzz(t)
    \/ \E t \in SeqThreads : StatisticsRecord(t)
    \/ \E t \in SeqThreads : Lock(t)
    \/ \E t \in SeqThreads : RecordLoad(t)
    \/ \E t \in SeqThreads : RecordStore(t)
    \/ \E t \in SeqThreads : Unlock(t)

SpecRoute == Init /\ [][NextRoute]_vars

\* a single goroutine sends requests through the Statistics middleware, built
\* with a store or with none, to a handler that sets whatever status it
\* likes and returns or panics
NextHandler ==
    \/ \E t \in SeqThreads : \E q \in HandlerQueries : ServeHTTP(t, q, MaxHandlerRecords)
    \/ \E t \in SeqThreads : \E q \in HandlerQueries : ServeHTTPNilStore(t, q)
    \/ \E t \in SeqThreads : \E code \in StatusCodes : HandlerWriteHeader(t, code)
    \/ \E t \in SeqThreads : HandlerWrite(t)
    \/ \E t \in SeqThreads : HandlerReturn(t)
    \/ \E t \in SeqThreads : HandlerPanic(t)
    \/ \E t \in SeqThreads : StatisticsRecord(t)
    \/ \E t \in SeqThreads : Lock(t)
    \/ \E t \in SeqThreads : RecordLoad(t)
    \/ \E t \in SeqThreads : RecordStore(t)
    \/ \E t \in SeqThreads : Unlock(t)

SpecHandler == Init /\ [][NextHandler]_vars

\* a single goroutine serves requests to the router main builds: /fizzbuzz
\* behind the Statistics middleware, /statistics, /health, and the paths that
\* have no route
NextRouter ==
    \/ \E t \in SeqThreads : \E q \in RouteQueries : ServeHTTP(t, q, MaxRouterRecords)
    \/ \E t \in SeqThreads : HandlerFizzBuzz(t)
    \/ \E t \in SeqThreads : StatisticsRecord(t)
    \/ \E t \in SeqThreads : Lock(t)
    \/ \E t \in SeqThreads : RecordLoad(t)
    \/ \E t \in SeqThreads : RecordStore(t)
    \/ \E t \in SeqThreads : Unlock(t)
    \/ \E t \in SeqThreads : \E q \in RouteQueries : ServeStatistics(t, TRUE, q)
    \/ \E t \in SeqThreads : RLock(t)
    \/ \E t \in SeqThreads : RangeStep(t)
    \/ \E t \in SeqThreads : RUnlock(t)
    \/ \E t \in SeqThreads : StatisticsRespond(t)
    \/ \E t \in SeqThreads : \E q \in RouteQueries : Health(t, q)
    \/ \E t \in SeqThreads : \E path \in OtherPaths : \E q \in RouteQueries :
          NotFoundHandler(t, path, q)

SpecRouter == Init /\ [][NextRouter]_vars

\* requests pass the RequestLogger, one after the other, to a handler that
\* writes what it likes and returns or panics
NextLogger ==
    \/ \E logger \in BOOLEAN : RequestLogger(logger)
    \/ \E code \in StatusCodes : responseWriterWriteHeader(code)
    \/ responseWriterWrite
    \/ LoggerHandlerReturn
    \/ \E value \in PanicValues : LoggerHandlerPanic(value)
    \/ LoggerDeferred

SpecLogger == Init /\ [][NextLogger]_vars

\* goroutines serve /statistics requests while others call Record
NextStatistics ==
    \/ \E t \in StatThreads : \E p \in ConcParams : CallRecord(t, p, MaxStatRecords)
    \/ \E t \in StatThreads : Lock(t)
    \/ \E t \in StatThreads : RecordLoad(t)
    \/ \E t \in StatThreads : RecordStore(t)
    \/ \E t \in StatThreads : Unlock(t)
    \/ \E t \in StatThreads : \E store \in BOOLEAN :
          ServeStatistics(t, store, EmptyMap)
    \/ \E t \in StatThreads : RLock(t)
    \/ \E t \in StatThreads : RangeStep(t)
    \/ \E t \in StatThreads : RUnlock(t)
    \/ \E t \in StatThreads : StatisticsRespond(t)

SpecStatistics == Init /\ [][NextStatistics]_vars

\* Generate called directly, once for each choice of arguments
NextGenerate == CallGenerate

SpecGenerate == InitGenerate /\ [][NextGenerate]_vars

\* parseFizzBuzzParams called directly, once for each query
NextParse == CallParse

SpecParse == InitParse /\ [][NextParse]_vars

\* The Go scheduler runs every runnable goroutine eventually (weak fairness of
\* the steps of a call); sync.Mutex hands the writer mutex to a goroutine that
\* has waited for it (starvation mode), which is strong fairness of Lock.
\* Nothing obliges a goroutine to start a call.
Fairness ==
    \A t \in Threads :
        /\ WF_vars(RecordLoad(t) \/ RecordStore(t) \/ Unlock(t))
        /\ WF_vars(RLock(t) \/ RangeStep(t) \/ RUnlock(t))
        /\ SF_vars(Lock(t))

SpecFair == Init /\ [][Next]_vars /\ Fairness

\* ------------------------------------------------------------ definitions
\* used by the properties below
InRecord(t) == pc[t] \in {"Lock", "wdrain", "load", "store", "Unlock"}
InWriteSection(t) == pc[t] \in {"load", "store", "Unlock"}
InReadSection(t) == pc[t] \in {"range", "RUnlock"}
ScanFinished(t) == pc[t] = "RUnlock"

Count(m, p) == IF p \in DOMAIN m THEN m[p] ELSE 0

MaxCount(m) == CHOOSE c \in {m[p] : p \in DOMAIN m} : \A q \in DOMAIN m : m[q] <= c

Found(p, hits) == [stats |-> {[Params |-> p, Hits |-> hits]}, ok |-> TRUE]
NotFound == [stats |-> {}, ok |-> FALSE]

\* what GetMostFrequent may return on a store whose map is m, when nothing
\* runs concurrently
SequentialResults(m) ==
    IF DOMAIN m = {} THEN {NotFound}
    ELSE {Found(p, m[p]) : p \in {q \in DOMAIN m : m[q] = MaxCount(m)}}

TypeOK ==
    /\ \A p \in DOMAIN requests : requests[p] \in Nat
    /\ mu.w \in Threads \cup {NoThread}
    /\ mu.readerCount \in 0..NThreads
    /\ mu.readerWait \in 0..NThreads

\* ------------------------------------------------------------------ claims

\* C1: no lost updates. Once every invoked Record has returned, the stored
\* count of each params value is exactly the number of Record calls invoked for
\* it, whatever the interleaving of the callers was.
C1_NoLostUpdates ==
    (\A t \in Threads : ~InRecord(t)) =>
        \A p \in ParamsUniverse : Count(requests, p) = Count(invoked, p)

\* three concurrent Record calls for the same params have all returned
C1_Witness ==
    /\ \A t \in Threads : pc[t] = "idle"
    /\ \E p \in ParamsUniverse :
         /\ Count(invoked, p) >= 3
         /\ Count(returned, p) = Count(invoked, p)
         /\ Count(requests, p) = Count(invoked, p)

\* C2: when one params value has a strictly higher count than every other,
\* GetMostFrequent returns found = true with that params value and its count.
C2_StrictLeaderReturned ==
    \A t \in Threads :
        ScanFinished(t) =>
            \A p \in DOMAIN requests :
                (\A q \in DOMAIN requests \ {p} : requests[q] < requests[p])
                    => Result(scan[t]) = Found(p, requests[p])

\* a store with three keys and a strict leader, scanned to the end
C2_Witness ==
    \E t \in Threads :
        /\ ScanFinished(t)
        /\ Cardinality(DOMAIN requests) = 3
        /\ \E p \in DOMAIN requests :
             /\ \A q \in DOMAIN requests \ {p} : requests[q] < requests[p]
             /\ Result(scan[t]) = Found(p, requests[p])

\* C3: on a non-empty store GetMostFrequent returns a stored params value
\* whose count is the maximum, with exactly that stored count; on a tie it is
\* one of the tied values.
C3_TieReturnsAMaximum ==
    \A t \in Threads :
        (ScanFinished(t) /\ DOMAIN requests # {}) =>
            /\ Result(scan[t]).ok
            /\ \E p \in DOMAIN requests :
                 /\ Result(scan[t]).stats = {[Params |-> p, Hits |-> requests[p]]}
                 /\ requests[p] = MaxCount(requests)

\* two params values tie for the maximum, a third is below it
C3_Witness ==
    \E t \in Threads :
        /\ ScanFinished(t)
        /\ \E p, q, r \in DOMAIN requests :
             /\ p # q
             /\ requests[p] = MaxCount(requests)
             /\ requests[q] = MaxCount(requests)
             /\ requests[r] < MaxCount(requests)

\* C4: on a store on which Record was never called GetMostFrequent returns
\* (nil, false); after exactly one Record(p) it returns p with count 1, true.
C4_EmptyAndSingle ==
    \A t \in Threads :
        ScanFinished(t) =>
            /\ (TotalInvoked = 0 => Result(scan[t]) = NotFound)
            /\ \A p \in ParamsUniverse :
                 (TotalInvoked = 1 /\ Count(returned, p) = 1) => Result(scan[t]) = Found(p, 1)

\* GetMostFrequent is about to return after exactly one Record
C4_Witness ==
    \E t \in Threads :
        /\ ScanFinished(t)
        /\ TotalInvoked = 1
        /\ \E p \in ParamsUniverse : Count(returned, p) = 1 /\ Result(scan[t]) = Found(p, 1)

\* C5: the store step of Record(p) leaves p with one more than it had: 1 when
\* p had no entry, c + 1 when it had count c; a Record, once it has the lock,
\* has no path on which it returns without this step.
C5_RecordAddsOne ==
    [][\A t \in Threads :
          (pc[t] = "store" /\ pc'[t] # "store") =>
              /\ pc'[t] = "Unlock"
              /\ arg[t] \in DOMAIN requests'
              /\ requests'[arg[t]] = Count(requests, arg[t]) + 1]_vars

\* a Record has raised an existing count while another key was created at 1
C5_Witness ==
    \E t \in Threads :
        /\ pc[t] = "Unlock"
        /\ Count(requests, arg[t]) = 2
        /\ \E q \in DOMAIN requests : q # arg[t] /\ requests[q] = 1

\* C6: in every step the key set does not shrink and no count decreases, and
\* every stored count is at least 1.
C6_MapOnlyGrows ==
    [][/\ DOMAIN requests \subseteq DOMAIN requests'
       /\ \A p \in DOMAIN requests : requests'[p] >= requests[p]
       /\ \A p \in DOMAIN requests' : requests'[p] >= 1]_vars

\* both keys are stored and one has been incremented past 1
C6_Witness ==
    /\ Cardinality(DOMAIN requests) = 2
    /\ \E p \in DOMAIN requests : requests[p] >= 2

\* C7: while a Record is in its critical section no other call is in a
\* critical section, and the map a GetMostFrequent scans is the map it found
\* when it took the read lock.
C7_LockDiscipline ==
    /\ \A t \in Threads :
         InWriteSection(t) =>
             \A u \in Threads \ {t} : ~InWriteSection(u) /\ ~InReadSection(u)
    /\ \A t \in Threads : InReadSection(t) => requests = snap[t]

\* two GetMostFrequent calls scan the map at the same time while a Record waits
C7_Witness ==
    \E t, u, w \in Threads :
        /\ t # u
        /\ pc[t] = "range"
        /\ pc[u] = "range"
        /\ pc[w] = "wdrain"

C9_Linearizable ==
    \A t \in Threads :
        ScanFinished(t) =>
            /\ Result(scan[t]) \in SequentialResults(snap[t])
            /\ \A p \in ParamsUniverse :
                 /\ Count(qlo[t], p) <= Count(snap[t], p)
                 /\ Count(snap[t], p) <= Count(invoked, p)
            /\ \A st \in Result(scan[t]).stats :
                 /\ Count(qlo[t], st.Params) <= st.Hits
                 /\ st.Hits <= Count(invoked, st.Params)
            /\ (~Result(scan[t]).ok => \A p \in ParamsUniverse : Count(qlo[t], p) = 0)

\* a query overlapped by Records: it returns a count above what had been
\* recorded when it was invoked, while a further Record is already invoked
C9_Witness ==
    \E t \in Threads :
        /\ ScanFinished(t)
        /\ \E st \in Result(scan[t]).stats :
             /\ Count(qlo[t], st.Params) < st.Hits
             /\ st.Hits < Count(invoked, st.Params)

\* the status the client of a request receives: the first one written
ResponseStatus(m) == IF m.wrote = 0 THEN StatusOK ELSE m.wrote

\* C10: the middleware calls store.Record only for a request whose handler
\* produced status 200, and a request whose handler set any other status
\* leaves the store as it was before the request.
C10_RecordOnlyOnStatusOK ==
    \A t \in Threads :
        mw[t].active =>
            /\ (InRecord(t) =>
                   ResponseStatus(mw[t]) = StatusOK /\ ~mw[t].setNonOK)
            /\ ((pc[t] = "served" /\ mw[t].setNonOK) => requests = mw[t].before)

\* C11: in the /fizzbuzz route as main wires it, the params value the
\* middleware passes to Record is made of the five values the validator
\* returned to the handler, from which the handler generated the response;
\* hence every key of the store has Int1 >= 1, Int2 >= 1, Limit >= 1 and
\* non-empty Str1 and Str2.
C11_RecordedParamsValidated ==
    /\ \A t \in Threads :
         (mw[t].active /\ InRecord(t)) =>
             \E parsed \in mw[t].parsed :
                 /\ parsed.err = Nil
                 /\ arg[t] = createParams(parsed.params.int1, parsed.params.int2,
                                          parsed.params.limit, parsed.params.str1,
                                          parsed.params.str2)
                 /\ mw[t].body = {FizzBuzzResponse(
                                     Generate(arg[t].Int1, arg[t].Int2, arg[t].Limit,
                                              arg[t].Str1, arg[t].Str2).result)}
    /\ \A p \in DOMAIN requests :
         /\ p.Int1 >= 1 /\ p.Int2 >= 1 /\ p.Limit >= 1
         /\ p.Str1 # <<>> /\ p.Str2 # <<>>

\* a request with int1=+3 has been recorded under Int1 = 3, next to a
\* second key
C11_Witness ==
    \E t \in Threads :
        /\ pc[t] = "served"
        /\ Get(mw[t].query, "int1") = <<"+", "3">>
        /\ requests # mw[t].before
        /\ Cardinality(DOMAIN requests) = 2
        /\ \E p \in DOMAIN requests : p.Int1 = 3 /\ p.Limit = 15

\* the string is a base-10 signed integer: an optional sign, then digits
SignedDecimal(s) ==
    LET body == IF s # <<>> /\ s[1] \in {"+", "-"} THEN Tail(s) ELSE s
    IN  body # <<>> /\ \A i \in 1..Len(body) : body[i] \in Digits

\* the integer a base-10 signed integer denotes
IntegerValue(s) ==
    IF s[1] = "-" THEN 0 - Decimal(Tail(s))
    ELSE IF s[1] = "+" THEN Decimal(Tail(s))
    ELSE Decimal(s)

PositiveInteger(s) == SignedDecimal(s) /\ IntegerValue(s) >= 1

NumberFields == <<"int1", "int2", "limit">>

\* the five keys are present and both labels are non-empty
LabelsGiven(q) ==
    /\ QueryKeys \subseteq DOMAIN q
    /\ q["str1"] # <<>> /\ q["str2"] # <<>>

\* the five keys are present, both labels are non-empty and the three
\* numbers parse as integers greater than 0
ValidQuery(q) ==
    /\ LabelsGiven(q)
    /\ \A i \in 1..3 : PositiveInteger(q[NumberFields[i]])

\* the number fields that precede field i are positive integers
EarlierNumbersValid(q, i) == \A j \in 1..(i - 1) : PositiveInteger(q[NumberFields[j]])

\* C12: a /fizzbuzz request that fails validation (a key missing, a label
\* empty, a number that is not an integer or not positive) is answered 400
\* and never reaches Record: when it has been served the store is the store
\* of before the request, and GetMostFrequent has the same possible answers.
C12_InvalidRequestLeavesStore ==
    \A t \in Threads :
        (mw[t].active /\ pc[t] # "next" /\ ~ValidQuery(mw[t].query)) =>
            /\ pc[t] \in {"check", "served"}
            /\ ResponseStatus(mw[t]) = StatusBadRequest
            /\ \E message \in UNION {parsed.err : parsed \in mw[t].parsed} :
                   mw[t].body = {ErrorResponse(message)}
            /\ requests = mw[t].before
            /\ SequentialResults(requests) = SequentialResults(mw[t].before)

\* after a recorded request, a request with int1=0 (an integer for the
\* middleware, invalid for the handler) has been served
C12_Witness ==
    \E t \in Threads :
        /\ pc[t] = "served"
        /\ mw[t].query = [int1 |-> <<"0">>, int2 |-> <<"5">>, limit |-> <<"1", "5">>,
                          str1 |-> <<"a">>, str2 |-> <<"b">>]
        /\ ResponseStatus(mw[t]) = StatusBadRequest
        /\ DOMAIN requests # {}
        /\ requests = mw[t].before

\* the five values are non-empty and the three numbers parse as integers
WellFormed(q) ==
    /\ \A k \in QueryKeys : Get(q, k) # <<>>
    /\ \A k \in {"int1", "int2", "limit"} : ~Atoi(Get(q, k)).err

\* the params value of a well-formed query
ParamsOf(q) ==
    createParams(Atoi(Get(q, "int1")).val, Atoi(Get(q, "int2")).val,
                 Atoi(Get(q, "limit")).val, Get(q, "str1"), Get(q, "str2"))

\* C13: a request through the Statistics middleware whose response has
\* status 200 and whose five parameters are well-formed causes exactly one
\* Record of its params: when it has been served, the store is the store of
\* before the request with the count of those params raised by one (so that
\* N such requests give hits = N).
C13_OneRecordPerOKRequest ==
    \A t \in Threads :
        (mw[t].active /\ pc[t] = "served" /\ ResponseStatus(mw[t]) = StatusOK
           /\ WellFormed(mw[t].query)) =>
            requests = MapSet(mw[t].before, ParamsOf(mw[t].query),
                              Count(mw[t].before, ParamsOf(mw[t].query)) + 1)

\* the goroutine has answered a /statistics request
StatisticsServed(t) == mw[t].route = "/statistics" /\ pc[t] = "served"

\* C14: the /statistics handler answers 404 "no statistics available" exactly
\* when the store it reads holds no entry, or when it has no store; otherwise
\* it answers 200 with the five fields and the count of an entry of maximal
\* count, the one GetMostFrequent returned; a request that arrives after a
\* Record has returned is never answered 404.
C14_StatisticsAnswer ==
    /\ [](\A t \in Threads :
            StatisticsServed(t) =>
                \/ /\ ResponseStatus(mw[t]) = StatusNotFound
                   /\ mw[t].body = {ErrorResponse(noStatisticsMessage)}
                \/ /\ ResponseStatus(mw[t]) = StatusOK
                   /\ mw[t].store
                   /\ \E p \in DOMAIN requests : \E hits \in 1..requests[p] :
                          mw[t].body = {[params |-> p, hits |-> hits]})
    /\ [](\A t \in Threads :
            (StatisticsServed(t) /\ ~mw[t].store) =>
                ResponseStatus(mw[t]) = StatusNotFound)
    /\ [][\A t \in Threads :
            (mw[t].route = "/statistics" /\ pc[t] = "respond" /\ pc'[t] = "served") =>
                /\ (ResponseStatus(mw'[t]) = StatusNotFound) <=> (DOMAIN snap[t] = {})
                /\ DOMAIN snap[t] # {} =>
                      /\ ResponseStatus(mw'[t]) = StatusOK
                      /\ Result(scan[t]).stats # Nil
                      /\ \E p \in DOMAIN snap[t] :
                            /\ snap[t][p] = MaxCount(snap[t])
                            /\ Result(scan[t]).stats = {[Params |-> p, Hits |-> snap[t][p]]}
                            /\ mw'[t].body = {[params |-> p, hits |-> snap[t][p]]}
                /\ DOMAIN qlo[t] # {} => ResponseStatus(mw'[t]) = StatusOK]_vars

\* a handler with the store answered 404 on the empty store, and a later
\* request was answered 200 with two hits
C14_Witness ==
    \E t, u \in Threads :
        /\ StatisticsServed(t) /\ mw[t].store
        /\ ResponseStatus(mw[t]) = StatusNotFound
        /\ StatisticsServed(u)
        /\ ResponseStatus(mw[u]) = StatusOK
        /\ \E p \in DOMAIN requests : mw[u].body = {[params |-> p, hits |-> 2]}

\* C15: the validator fails with the one fixed message that names all five
\* parameters exactly when one of the five keys is absent from the query,
\* whatever the values of the other keys; a key present with an empty value
\* does not cause this failure.
C15_MissingKey ==
    \A r \in prs.result :
        (\E k \in QueryKeys : k \notin DOMAIN prs.values) <=>
            r.err = {<<"missing required parameters: int1, int2, limit, str1, str2">>}

\* limit is absent, str1 is present and empty, int1 is not a number
C15_Witness ==
    /\ prs.called
    /\ DOMAIN prs.values = QueryKeys \ {"limit"}
    /\ prs.values["str1"] = <<>>
    /\ prs.values["int1"] = <<"x">>
    /\ \E r \in prs.result : r.err = {missingParamsMessage}

\* C16: with the five keys present, an empty str1 fails with "str1 cannot be
\* empty", and a non-empty str1 with an empty str2 fails with "str2 cannot be
\* empty", whatever int1, int2 and limit are.
C16_EmptyLabel ==
    \A r \in prs.result :
        QueryKeys \subseteq DOMAIN prs.values =>
            /\ prs.values["str1"] = <<>> => r.err = {<<"str1", " cannot be empty">>}
            /\ (prs.values["str1"] # <<>> /\ prs.values["str2"] = <<>>) =>
                   r.err = {<<"str2", " cannot be empty">>}

\* str2 is empty while int1 is not a number and int2 is zero
C16_Witness ==
    /\ prs.called
    /\ QueryKeys \subseteq DOMAIN prs.values
    /\ prs.values["str1"] # <<>> /\ prs.values["str2"] = <<>>
    /\ prs.values["int1"] = <<"x">> /\ prs.values["int2"] = <<"0">>
    /\ \E r \in prs.result : r.err = {<<"str2", " cannot be empty">>}

C19_SuccessIffValid ==
    \A r \in prs.result :
        /\ (r.err = Nil) <=> ValidQuery(prs.values)
        /\ r.err = Nil =>
              /\ r.params = [int1 |-> IntegerValue(prs.values["int1"]),
                             int2 |-> IntegerValue(prs.values["int2"]),
                             limit |-> IntegerValue(prs.values["limit"]),
                             str1 |-> prs.values["str1"],
                             str2 |-> prs.values["str2"]]
              /\ r.params.int1 >= 1 /\ r.params.int2 >= 1 /\ r.params.limit >= 1

\* a query with limit=1000000, int1=+3 and int2=15 has been accepted
C19_Witness ==
    /\ prs.called
    /\ \E r \in prs.result :
          /\ r.err = Nil
          /\ prs.values["int1"] = <<"+", "3">>
          /\ r.params.int1 = 3 /\ r.params.int2 = 15 /\ r.params.limit = 1000000

\* d is not zero and n is a multiple of d
Divides(d, n) == d # 0 /\ \E k \in 1..n : k * Abs(d) = n

\* s is the decimal representation of the positive integer n
DecimalOf(s, n) ==
    /\ s # <<>>
    /\ \A i \in 1..Len(s) : s[i] \in Digits
    /\ s[1] # "0"
    /\ Decimal(s) = n

\* C20: for every int1, int2, str1, str2 and every limit >= 1, Generate
\* returns exactly limit elements, and the n-th is str1 followed by str2 when
\* both divisors are nonzero and divide n (also when int1 = int2), str1 when
\* only int1 does, str2 when only int2 does, and the decimal representation
\* of n otherwise.
C20_GenerateElements ==
    (gen.called /\ gen.limit >= 1) =>
        /\ Len(gen.result) = gen.limit
        /\ \A n \in 1..gen.limit :
              IF Divides(gen.int1, n) /\ Divides(gen.int2, n)
                THEN gen.result[n] = gen.str1 \o gen.str2
              ELSE IF Divides(gen.int1, n) THEN gen.result[n] = gen.str1
              ELSE IF Divides(gen.int2, n) THEN gen.result[n] = gen.str2
              ELSE DecimalOf(gen.result[n], n)

\* Generate(3, 5, 15, "fizz", "buzz") has returned 15 elements, the last
\* two being "14" and "fizzbuzz"
C20_Witness ==
    /\ gen.called
    /\ gen.int1 = 3 /\ gen.int2 = 5 /\ gen.limit = 15
    /\ gen.str1 = <<"f", "i", "z", "z">> /\ gen.str2 = <<"b", "u", "z", "z">>
    /\ Len(gen.result) = 15
    /\ gen.result[14] = <<"1", "4">>
    /\ gen.result[15] = <<"f", "i", "z", "z", "b", "u", "z", "z">>

\* C21: for every limit <= 0 and any divisors and labels, Generate returns
\* (it does not panic) a slice that is not nil and has no element.
C21_EmptyForNonPositiveLimit ==
    (gen.called /\ gen.limit <= 0) =>
        ~gen.panic /\ ~gen.nil /\ Len(gen.result) = 0

\* Generate(3, 5, -1, "fizz", "buzz") has returned the empty slice
C21_Witness ==
    /\ gen.called
    /\ gen.int1 = 3 /\ gen.int2 = 5 /\ gen.limit = 0 - 1
    /\ gen.str1 = <<"f", "i", "z", "z">> /\ gen.str2 = <<"b", "u", "z", "z">>
    /\ ~gen.panic /\ ~gen.nil /\ gen.result = <<>>

\* C22: a divisor equal to 0 matches no position.  With int1 = 0 the n-th
\* element is str2 when int2 divides n and the decimal of n otherwise, with
\* int2 = 0 it is str1 when int1 divides n and the decimal of n otherwise,
\* with both 0 it is always the decimal of n; a zero divisor causes no panic
\* (the one panic of Generate comes from the capacity of the slice).
C22_ZeroDivisorNeverMatches ==
    (gen.called /\ (gen.int1 = 0 \/ gen.int2 = 0)) =>
        /\ gen.panic <=> gen.limit > MaxSliceCap
        /\ \A n \in 1..Len(gen.result) :
              /\ gen.int1 = 0 =>
                    IF Divides(gen.int2, n) THEN gen.result[n] = gen.str2
                    ELSE DecimalOf(gen.result[n], n)
              /\ gen.int2 = 0 =>
                    IF Divides(gen.int1, n) THEN gen.result[n] = gen.str1
                    ELSE DecimalOf(gen.result[n], n)

\* Generate(0, 0, 15, "fizz", "buzz") has returned "1" .. "15"
C22_Witness ==
    /\ gen.called
    /\ gen.int1 = 0 /\ gen.int2 = 0 /\ gen.limit = 15
    /\ gen.str1 = <<"f", "i", "z", "z">> /\ gen.str2 = <<"b", "u", "z", "z">>
    /\ Len(gen.result) = 15
    /\ gen.result[10] = <<"1", "0">> /\ gen.result[15] = <<"1", "5">>

\* C23: Generate is total: for every int1, int2 and limit, the largest int
\* included, and any two strings, the call returns a result.
C23_GenerateTotal == gen.called => ~gen.panic

\* C27: Record(p) changes nothing but the entry for p: a step changes the
\* presence or the count of a params value q only when it is the store of a
\* Record whose argument is q; every q that differs from the argument in at
\* least one field is present after the call exactly when it was before, with
\* the same count.
C27_RecordFrame ==
    [][\A q \in ParamsUniverse :
          ((q \in DOMAIN requests') # (q \in DOMAIN requests)
              \/ Count(requests', q) # Count(requests, q)) =>
          \E t \in Threads :
              /\ pc[t] = "store"
              /\ pc'[t] = "Unlock"
              /\ arg[t] = q]_vars

\* a Record has created its entry while another entry, recorded twice, kept
\* its count
C27_Witness ==
    \E t \in Threads :
        /\ pc[t] = "Unlock"
        /\ Count(requests, arg[t]) = 1
        /\ \E q \in DOMAIN requests :
              q # arg[t] /\ requests[q] = 2 /\ Count(returned, q) = 2

\* the goroutine is inside a call of GetMostFrequent
InGetMostFrequent(t) == pc[t] \in {"RLock", "rblocked", "range", "RUnlock"}

\* the handler holds the result GetMostFrequent returned to it
HoldsResult(t) == mw[t].route = "/statistics" /\ pc[t] = "respond"

\* the Hits the holder of a result reads, 0 for the nil result
HitsRead(res) == IF res.ok THEN (CHOOSE st \in res.stats : TRUE).Hits ELSE 0

\* C28: GetMostFrequent is read-only: no step of a call, from its invocation
\* to its return, changes the key set or a count of the store.  The Stats it
\* returns is a copy: what the caller reads through it stays what was returned
\* (the count its Params had when the read lock was taken) whatever Records
\* store afterwards, and two calls that ran on the same store contents, no
\* Record having stored in between, report the same presence and hit count.
C28_GetMostFrequentReadOnly ==
    /\ [][\A t \in Threads :
            ((InGetMostFrequent(t) \/ InGetMostFrequent(t)')
                /\ <<pc[t], scan[t]>> # <<pc'[t], scan'[t]>>) =>
                requests' = requests]_vars
    /\ [](\A t \in Threads :
            HoldsResult(t) =>
                LET res == StatsRead(Result(scan[t]), requests)
                IN  /\ res.ok <=> DOMAIN snap[t] # {}
                    /\ res.ok => \E st \in res.stats :
                          /\ st.Params \in DOMAIN snap[t]
                          /\ st.Hits = snap[t][st.Params])
    /\ [][\A t \in Threads :
            (HoldsResult(t) /\ HoldsResult(t)') =>
                StatsRead(Result(scan'[t]), requests') =
                    StatsRead(Result(scan[t]), requests)]_vars
    /\ [](\A t, u \in Threads :
            (HoldsResult(t) /\ HoldsResult(u) /\ snap[t] = snap[u]) =>
                LET rt == StatsRead(Result(scan[t]), requests)
                    ru == StatsRead(Result(scan[u]), requests)
                IN  rt.ok = ru.ok /\ HitsRead(rt) = HitsRead(ru))

\* a handler holds a result of one hit while a later Record has raised the
\* count of the same params to two
C28_Witness ==
    \E t \in Threads :
        /\ HoldsResult(t)
        /\ HitsRead(StatsRead(Result(scan[t]), requests)) = 1
        /\ \E st \in Result(scan[t]).stats : Count(requests, st.Params) = 2

\* the failure of the label field, if the key is present with an empty value
LabelFailure(q, field) ==
    IF field \in DOMAIN q /\ q[field] = <<>>
      THEN << <<field, " cannot be empty">> >> ELSE <<>>

\* the failure of the number field, if the key is present: not an integer,
\* or else an integer that is not positive
NumberFailure(q, field) ==
    IF field \notin DOMAIN q THEN <<>>
    ELSE IF ~SignedDecimal(q[field]) THEN << <<field, " must be a valid integer">> >>
    ELSE IF IntegerValue(q[field]) <= 0 THEN << <<field, " must be greater than 0">> >>
    ELSE <<>>

\* every failure of the query, in the order: missing key, str1, str2, int1,
\* int2, limit
Failures(q) ==
    (IF QueryKeys \subseteq DOMAIN q THEN <<>>
       ELSE << <<"missing required parameters: int1, int2, limit, str1, str2">> >>)
    \o LabelFailure(q, "str1") \o LabelFailure(q, "str2")
    \o NumberFailure(q, "int1") \o NumberFailure(q, "int2")
    \o NumberFailure(q, "limit")

\* C30: the validator reports at most one failure per request, none when the
\* query has no failure and otherwise the first of its failures in the order
\* missing key, empty str1, empty str2, int1, int2, limit, where for each
\* number not-an-integer is reported rather than not-positive; int1=0 with
\* int2=abc is reported as int1 not being greater than 0.
C30_FirstFailureReported ==
    \A r \in prs.result :
        /\ Cardinality(r.err) <= 1
        /\ Failures(prs.values) = <<>> <=> r.err = Nil
        /\ Failures(prs.values) # <<>> => r.err = {Failures(prs.values)[1]}

\* int1 is 0 and int2 is not a number (and limit is negative): the failure
\* reported is the one of int1
C30_Witness ==
    /\ prs.called
    /\ QueryKeys \subseteq DOMAIN prs.values
    /\ prs.values["int1"] = <<"0">> /\ prs.values["int2"] = <<"x">>
    /\ prs.values["limit"] = <<"-", "5">>
    /\ Len(Failures(prs.values)) = 3
    /\ \E r \in prs.result : r.err = {<<"int1", " must be greater than 0">>}

\* the goroutine serves a request that entered the Statistics middleware
ThroughMiddleware(t) == mw[t].route = "/fizzbuzz" /\ pc[t] # "idle"

\* C24: the Statistics middleware invokes the wrapped handler exactly once
\* for every request, whether its query is valid or not and whether the
\* middleware was built with a store or with nil: while the handler runs it
\* has not run before, and from its end on, through the check, the Record and
\* the return of the middleware, it has run once.
C24_HandlerCalledOnce ==
    \A t \in Threads :
        ThroughMiddleware(t) =>
            /\ pc[t] = "next" => mw[t].handled = 0
            /\ pc[t] # "next" => mw[t].handled = 1

\* after a request that was recorded, the middleware without a store has
\* served a request with the five parameters: the handler ran once and the
\* store is as it was
C24_Witness ==
    \E t \in Threads :
        /\ ThroughMiddleware(t) /\ pc[t] = "served"
        /\ ~mw[t].active
        /\ QueryKeys \subseteq DOMAIN mw[t].query
        /\ mw[t].handled = 1 /\ mw[t].wrote = StatusOK
        /\ DOMAIN requests # {} /\ requests = mw[t].before

\* C29: within a request the middleware touches the store only after the
\* wrapped handler has returned normally: no step taken while the handler
\* runs changes the store, its lock or the number of Records invoked; a
\* Record is invoked only from the check that follows the return of the
\* handler; a request whose handler panicked is over with the store as it
\* was when the request arrived, and no Record follows.
C29_RecordAfterHandlerReturn ==
    /\ [][\A t \in Threads :
            pc[t] = "next" =>
                /\ requests' = requests /\ mu' = mu
                /\ invoked' = invoked /\ returned' = returned]_vars
    /\ [][\A t \in Threads :
            (pc'[t] = "Lock" /\ pc[t] # "Lock") =>
                /\ pc[t] = "check"
                /\ mw[t].handled = 1 /\ ~mw[t].panicked]_vars
    /\ [](\A t \in Threads :
            (ThroughMiddleware(t) /\ mw[t].panicked) =>
                /\ pc[t] = "served"
                /\ requests = mw[t].before
                /\ TotalInvoked = SumOver(returned, DOMAIN returned))

\* the handler of a request with the five parameters wrote status 200 and
\* then panicked, after an earlier request was recorded: the store is as
\* the request found it
C29_Witness ==
    \E t \in Threads :
        /\ ThroughMiddleware(t) /\ mw[t].active /\ mw[t].panicked
        /\ QueryKeys \subseteq DOMAIN mw[t].query
        /\ mw[t].status = StatusOK /\ mw[t].wrote = StatusOK
        /\ DOMAIN requests # {} /\ requests = mw[t].before

\* the goroutine serves, or has served, a request to a route other than
\* /fizzbuzz
OtherRoute(t) == pc[t] # "idle" /\ mw[t].route # "/fizzbuzz"

\* C25: only the /fizzbuzz route updates the store: a step changes the map,
\* or invokes a Record, only for a request to /fizzbuzz; from its arrival to
\* its answer a request to /statistics, /health or a path without a route
\* finds and leaves the store as it was, also when it carries the five valid
\* parameters and is answered 200.
C25_OnlyFizzBuzzRecords ==
    /\ [][(requests' # requests \/ invoked' # invoked) =>
            \E t \in Threads :
                /\ mw[t].route = "/fizzbuzz"
                /\ pc[t] \in {"check", "store"}]_vars
    /\ [](\A t \in Threads :
            OtherRoute(t) =>
                /\ requests = mw[t].before
                /\ ~InRecord(t)
                /\ TotalInvoked = SumOver(returned, DOMAIN returned))

\* after a recorded /fizzbuzz request, /health was asked with the same five
\* parameters and answered 200: the count is still 1
C25_Witness ==
    \E t \in Threads :
        /\ pc[t] = "served" /\ mw[t].route = "/health"
        /\ ValidQuery(mw[t].query)
        /\ ResponseStatus(mw[t]) = StatusOK
        /\ Count(requests, ParamsOf(mw[t].query)) = 1
        /\ requests = mw[t].before

\* the request in the RequestLogger is over and its handler panicked
PanickedRequestLogged == lg.pc = "done" /\ lg.raised # Nil /\ lg.logger

\* C26: when the handler wrapped by RequestLogger panics, the logger emits
\* exactly one entry for the request, at level ERROR, carrying the panic
\* value, with status 500 if no header had been written before the panic and
\* the status that was written otherwise; then the same panic leaves the
\* middleware.
C26_PanicLogged ==
    PanickedRequestLogged =>
        /\ Len(lg.entries) = lg.logged + 1
        /\ LET entry == lg.entries[Len(lg.entries)]
           IN  /\ entry.level = LevelError
               /\ entry.panic = lg.raised
               /\ entry.status = IF lg.sent = 0 THEN StatusInternalServerError
                                 ELSE lg.sent
        /\ lg.propagated = lg.raised

\* the same, the status of the entry being the one last passed to
\* WriteHeader (200 for a Write without WriteHeader)
C26_PanicLoggedLastStatus ==
    PanickedRequestLogged =>
        /\ Len(lg.entries) = lg.logged + 1
        /\ LET entry == lg.entries[Len(lg.entries)]
           IN  /\ entry.level = LevelError
               /\ entry.panic = lg.raised
               /\ entry.status = IF ~lg.wroteHeader THEN StatusInternalServerError
                                 ELSE lg.status
        /\ lg.propagated = lg.raised

====
